---- MODULE Spec2Model ----
(***************************************************************************)
(* Model of src/services/storage.ts: the StorageService facade over the   *)
(* browser's localStorage, as seen from one tab.                          *)
(*                                                                         *)
(* localStorage is a function from the keys that are present to the       *)
(* parsed JSON value stored under them.  A username is a sequence of      *)
(* UTF-16 code units, so that toLowerCase() is computed; an id is a pair  *)
(* <<prefix, n>> standing for the string prefix + n.  Timers set with     *)
(* setTimeout are kept in the order they were set; one set later fires    *)
(* first only if its delay is shorter.  A body that runs inside one       *)
(* promise executor or one timer callback is one step.                    *)
(*                                                                         *)
(* last is the operation of the step that led to the state, with its      *)
(* arguments and with what its promise resolved to in that step; calls    *)
(* counts the operations invoked.                                         *)
(*                                                                         *)
(* tabs is what each tab of the browser holds in the middle of a body,    *)
(* between its getItem and its setItem.  Seen from one tab (Spec) a body  *)
(* is one step and no tab is ever in the middle of one; TabsSpec has two  *)
(* tabs over the one localStorage, whose bodies interleave.               *)
(***************************************************************************)
EXTENDS Integers, Sequences, FiniteSets

VARIABLES localStorage, timers, now, last, calls, tabs

vars == <<localStorage, timers, now, last, calls, tabs>>

(* ---------------------------- bounds ---------------------------------- *)
\* operations of StorageService invoked in a behaviour
MaxCalls == 2
\* milliseconds that pass in a behaviour
MaxTicks == 1

(* ------------------------- program constants -------------------------- *)
STORAGE_KEYS ==
  [USERS |-> "app_users", ROOMS |-> "app_rooms", BOOKINGS |-> "app_bookings",
   CURRENT_USER |-> "app_current_user", CONFIG |-> "app_config"]

UserRole == [ADMIN |-> "ADMIN", USER |-> "USER"]

BookingStatus ==
  [PENDING |-> "PENDING", APPROVED |-> "APPROVED", REJECTED |-> "REJECTED"]

BookingStatusValues == {BookingStatus.PENDING, BookingStatus.APPROVED, BookingStatus.REJECTED}

SEED_ROOMS ==
  << [id |-> <<"room-", 1>>, name |-> "Salon Parroquial Principal", capacity |-> 50,
      features |-> <<"Proyector", "Aire Acondicionado", "Pizarron", "Sillas">>,
      imageUrl |-> "https://picsum.photos/400/300?random=1"] >>

\* 'admin' and 'user' as code units
SEED_USERS ==
  << [id |-> <<"u", 1>>, username |-> <<97, 100, 109, 105, 110>>, password |-> "password",
      role |-> UserRole.ADMIN, name |-> "Administrador Principal"],
     [id |-> <<"u", 2>>, username |-> <<117, 115, 101, 114>>, password |-> "password",
      role |-> UserRole.USER, name |-> "Juan Perez"] >>

SEED_CONFIG == [appName |-> "Parish Booker", appLogo |-> "fa-church"]

DelayUpdateAppConfig == 400
DelayLogin == 500
DelayRegister == 600
DelayUpdatePassword == 500
DelayCreateBooking == 600

USERNAME_EXISTS == "El nombre de usuario ya existe."

(* Date.now() when the page is loaded; the seed ids 'room-1', 'u1', 'u2'  *)
(* are not timestamps.                                                    *)
StartClock == 2
MaxClock == StartClock + MaxTicks

(* --------------------------- JS primitives ---------------------------- *)
\* String.prototype.toLowerCase on code units (ASCII letters)
toLowerCase(s) == [i \in DOMAIN s |-> IF s[i] \in 65..90 THEN s[i] + 32 ELSE s[i]]

\* a JS number: finite, or NaN; JSON has null in place of NaN
Num(n) == [t |-> "num", v |-> n]
NaN == [t |-> "NaN", v |-> 0]
null == [t |-> "null", v |-> 0]

\* JSON.stringify of a number followed by JSON.parse
JSONNumber(x) == IF x.t = "NaN" THEN null ELSE x

\* ToNumber, as applied by the operators - and <
ToNumber(x) == IF x.t = "num" THEN x.v ELSE 0

\* JSON.parse(JSON.stringify(bookings))
JSONBookings(bs) == [i \in DOMAIN bs |-> [bs[i] EXCEPT !.createdAt = JSONNumber(@)]]

\* Storage.getItem(k) || dflt
getItem(ls, k, dflt) == IF k \in DOMAIN ls THEN ls[k] ELSE dflt

\* Storage.setItem
setItem(ls, k, v) == [x \in (DOMAIN ls) \cup {k} |-> IF x = k THEN v ELSE ls[x]]

\* Storage.removeItem
removeItem(ls, k) == [x \in (DOMAIN ls) \ {k} |-> ls[x]]

\* the object rest pattern { password, ...safeUser }
safeUser(u) == [f \in (DOMAIN u) \ {"password"} |-> u[f]]

(* ----------------------------- seeding -------------------------------- *)
\* variant: the seed is written whether or not the key is present
SeedIfAbsent_Overwrite(ls, k, v) == setItem(ls, k, v)

\* if (!localStorage.getItem(k)) localStorage.setItem(k, JSON.stringify(v))
SeedIfAbsent(ls, k, v) == IF k \in DOMAIN ls THEN ls ELSE setItem(ls, k, v)

initializeStorage(ls) ==
  LET s1 == SeedIfAbsent(ls, STORAGE_KEYS.ROOMS, SEED_ROOMS)
      s2 == SeedIfAbsent(s1, STORAGE_KEYS.BOOKINGS, <<>>)
      s3 == SeedIfAbsent(s2, STORAGE_KEYS.USERS, SEED_USERS)
  IN  SeedIfAbsent(s3, STORAGE_KEYS.CONFIG, SEED_CONFIG)

EmptyStorage == [k \in {} |-> 0]

NoOp == [op |-> "load", arg |-> <<>>, res |-> [kind |-> "none"]]

\* the tabs that have the page open
Tabs == {"tabA", "tabB"}

\* a tab that is in no body
Idle == [pc |-> "idle", op |-> "none", read |-> <<>>, arg |-> <<>>, res |-> [kind |-> "none"]]

\* what the page finds in localStorage when it is loaded: nothing, or what an earlier
\* visit left there, here the seeds and a booking of the seed room that
\* createBooking made a millisecond before this visit
EarlierBooking ==
  [id |-> <<"", StartClock - 1>>, roomId |-> SEED_ROOMS[1].id, purpose |-> "Misa",
   status |-> BookingStatus.PENDING, createdAt |-> Num(StartClock - 1)]

EarlierVisits ==
  {EmptyStorage,
   setItem(initializeStorage(EmptyStorage), STORAGE_KEYS.BOOKINGS, <<EarlierBooking>>)}

Init ==
  /\ \E found \in EarlierVisits : localStorage = initializeStorage(found)
  /\ timers = <<>>
  /\ now = StartClock
  /\ last = NoOp
  /\ calls = 0
  /\ tabs = [t \in Tabs |-> Idle]

(* ------------------------------ inputs -------------------------------- *)
\* 'ana', 'ADMIN' as code units
Usernames == {<<97, 110, 97>>, <<65, 68, 77, 73, 78>>}
Passwords == {"password", "pw"}
Names == {"Ana"}
Configs == {[appName |-> "Domus Nostra", appLogo |-> "fa-home"]}
Clock == StartClock..MaxClock
\* the ids given to the operations: the seed ids, and those made of the first and the
\* last reading of the clock
Stamps == {StartClock, MaxClock}
RoomIds == {SEED_ROOMS[1].id} \cup {<<"room-", n>> : n \in Stamps}
RoomData == {[name |-> "Hall", capacity |-> 10, features |-> <<>>, imageUrl |-> ""]}
Rooms == {[id |-> i, name |-> d.name, capacity |-> d.capacity, features |-> d.features,
           imageUrl |-> d.imageUrl] : i \in RoomIds, d \in RoomData}
BookingIds == {EarlierBooking.id} \cup {<<"", n>> : n \in Stamps}
UserIds == {SEED_USERS[1].id} \cup {<<"u-", n>> : n \in Stamps}
Purposes == {"Catequesis"}
BookingData == {[roomId |-> r, purpose |-> p] : r \in RoomIds, p \in Purposes}
\* the bookings given to updateBooking: moved to another room, approved, with a
\* createdAt that is not a number or is the latest
Bookings == {[id |-> i, roomId |-> <<"room-", StartClock>>, purpose |-> p,
              status |-> BookingStatus.APPROVED, createdAt |-> c] :
               i \in BookingIds, p \in Purposes, c \in {NaN, Num(MaxClock)}}

(* --------------------------- store access ----------------------------- *)
users == getItem(localStorage, STORAGE_KEYS.USERS, <<>>)
rooms == getItem(localStorage, STORAGE_KEYS.ROOMS, <<>>)
bookings == getItem(localStorage, STORAGE_KEYS.BOOKINGS, <<>>)

Pending == [kind |-> "pending"]
True == [kind |-> "true"]
Result(o, a, r) == [op |-> o, arg |-> a, res |-> r]

\* one more operation of StorageService is invoked
Call == calls < MaxCalls /\ calls' = calls + 1

\* setTimeout(callback, delay); the callback closes over the resolve of the promise that
\* the call has made, here the promise of the calls'-th operation
setTimeout(o, a, d) == Append(timers, [promise |-> calls', op |-> o, arg |-> a, delay |-> d])

\* variant: a timer waits for every other timer that is not due later
CanFire_AfterAll(i) == \A j \in (DOMAIN timers) \ {i} : timers[j].delay > timers[i].delay

\* the timer at position i is due before every timer set earlier
CanFire(i) == \A j \in 1..(i - 1) : timers[j].delay > timers[i].delay

RemoveAt(s, i) == [j \in 1..(Len(s) - 1) |-> IF j < i THEN s[j] ELSE s[j + 1]]

(* ----------------------------- config --------------------------------- *)
getAppConfig ==
  /\ Call
  /\ UNCHANGED tabs
  /\ last' = Result("getAppConfig", <<>>,
               [kind |-> "config", val |-> getItem(localStorage, STORAGE_KEYS.CONFIG, SEED_CONFIG)])
  /\ UNCHANGED <<localStorage, timers, now>>

updateAppConfig(config) ==
  /\ Call
  /\ UNCHANGED tabs
  /\ localStorage' = setItem(localStorage, STORAGE_KEYS.CONFIG, config)
  /\ timers' = setTimeout("updateAppConfig", <<>>, DelayUpdateAppConfig)
  /\ last' = Result("updateAppConfig", <<config>>, Pending)
  /\ UNCHANGED now

\* variant: the timer's callback writes the config
updateAppConfigTimeout_Writes(i) ==
  /\ UNCHANGED <<calls, tabs>>
  /\ timers[i].op = "updateAppConfig"
  /\ CanFire(i)
  /\ timers' = RemoveAt(timers, i)
  /\ localStorage' = setItem(localStorage, STORAGE_KEYS.CONFIG, SEED_CONFIG)
  /\ last' = Result("updateAppConfigTimeout", <<>>, True)
  /\ UNCHANGED now

updateAppConfigTimeout(i) ==
  /\ UNCHANGED <<calls, tabs>>
  /\ timers[i].op = "updateAppConfig"
  /\ CanFire(i)
  /\ timers' = RemoveAt(timers, i)
  /\ last' = Result("updateAppConfigTimeout", <<>>, True)
  /\ UNCHANGED <<localStorage, now>>

(* ------------------------------- auth --------------------------------- *)
\* variant: the usernames are compared as they are written
sameUsername_CaseSensitive(u, username) == u.username = username

\* u => u.username.toLowerCase() === username.toLowerCase()
sameUsername(u, username) == toLowerCase(u.username) = toLowerCase(username)

\* users.find(...) of login and register, as an index (0: undefined)
findUser(us, username) ==
  IF \E i \in DOMAIN us : sameUsername(us[i], username)
    THEN CHOOSE i \in DOMAIN us :
           /\ sameUsername(us[i], username)
           /\ \A j \in 1..(i - 1) : ~sameUsername(us[j], username)
    ELSE 0

\* variant: the password is not compared
loginAccepts_AnyPassword(us, k, passwordInput) == k # 0

\* user && user.password === passwordInput
loginAccepts(us, k, passwordInput) == k # 0 /\ us[k].password = passwordInput

\* variant: the stored record is used as it is
loginSafeUser_WithPassword(user) == user

\* what login puts in the session slot and resolves to
loginSafeUser(user) == safeUser(user)

login(username, passwordInput) ==
  /\ Call
  /\ UNCHANGED tabs
  /\ timers' = setTimeout("login", <<username, passwordInput>>, DelayLogin)
  /\ last' = Result("login", <<username, passwordInput>>, Pending)
  /\ UNCHANGED <<localStorage, now>>

\* variant: a login that fails empties the session slot
loginTimeout_FailureLogsOut(i) ==
  /\ UNCHANGED <<calls, tabs>>
  /\ timers[i].op = "login"
  /\ CanFire(i)
  /\ LET username == timers[i].arg[1]
         passwordInput == timers[i].arg[2]
         us == getItem(localStorage, STORAGE_KEYS.USERS, <<>>)
         k == findUser(us, username)
     IN  IF loginAccepts(us, k, passwordInput)
           THEN /\ localStorage' =
                     setItem(localStorage, STORAGE_KEYS.CURRENT_USER, loginSafeUser(us[k]))
                /\ last' = Result("loginTimeout", timers[i].arg,
                                  [kind |-> "user", val |-> loginSafeUser(us[k])])
           ELSE /\ localStorage' = removeItem(localStorage, STORAGE_KEYS.CURRENT_USER)
                /\ last' = Result("loginTimeout", timers[i].arg, [kind |-> "null"])
  /\ timers' = RemoveAt(timers, i)
  /\ UNCHANGED now

loginTimeout(i) ==
  /\ UNCHANGED <<calls, tabs>>
  /\ timers[i].op = "login"
  /\ CanFire(i)
  /\ LET username == timers[i].arg[1]
         passwordInput == timers[i].arg[2]
         us == getItem(localStorage, STORAGE_KEYS.USERS, <<>>)
         k == findUser(us, username)
     IN  IF loginAccepts(us, k, passwordInput)
           THEN /\ localStorage' =
                     setItem(localStorage, STORAGE_KEYS.CURRENT_USER, loginSafeUser(us[k]))
                /\ last' = Result("loginTimeout", timers[i].arg,
                                  [kind |-> "user", val |-> loginSafeUser(us[k])])
           ELSE /\ UNCHANGED localStorage
                /\ last' = Result("loginTimeout", timers[i].arg, [kind |-> "null"])
  /\ timers' = RemoveAt(timers, i)
  /\ UNCHANGED now

\* variant: the new user is given the privileged role
newUser_Admin(name, username, password, t) ==
  [id |-> <<"u-", t>>, username |-> username, password |-> password, name |-> name,
   role |-> UserRole.ADMIN]

\* the StoredUser built by register
newUser(name, username, password, t) ==
  [id |-> <<"u-", t>>, username |-> username, password |-> password, name |-> name,
   role |-> UserRole.USER]

\* variant: the id is left out with the password
registerSafeUser_NoId(user) == [f \in (DOMAIN user) \ {"password", "id"} |-> user[f]]

\* what register puts in the session slot and resolves to
registerSafeUser(user) == safeUser(user)

\* the username test of register
registerExists(us, username) == findUser(us, username) # 0

register(name, username, password) ==
  /\ Call
  /\ UNCHANGED tabs
  /\ timers' = setTimeout("register", <<name, username, password>>, DelayRegister)
  /\ last' = Result("register", <<name, username, password>>, Pending)
  /\ UNCHANGED <<localStorage, now>>

registerTimeout(i) ==
  /\ UNCHANGED <<calls, tabs>>
  /\ timers[i].op = "register"
  /\ CanFire(i)
  /\ LET name == timers[i].arg[1]
         username == timers[i].arg[2]
         password == timers[i].arg[3]
         us == getItem(localStorage, STORAGE_KEYS.USERS, <<>>)
         nu == newUser(name, username, password, now)
     IN  IF registerExists(us, username)
           THEN /\ UNCHANGED localStorage
                /\ last' = Result("registerTimeout", timers[i].arg,
                                  [kind |-> "message", val |-> USERNAME_EXISTS])
           ELSE /\ localStorage' =
                     setItem(setItem(localStorage, STORAGE_KEYS.USERS, Append(us, nu)),
                             STORAGE_KEYS.CURRENT_USER, registerSafeUser(nu))
                /\ last' = Result("registerTimeout", timers[i].arg,
                                  [kind |-> "user", val |-> registerSafeUser(nu)])
  /\ timers' = RemoveAt(timers, i)
  /\ UNCHANGED now

logout ==
  /\ Call
  /\ UNCHANGED tabs
  /\ localStorage' = removeItem(localStorage, STORAGE_KEYS.CURRENT_USER)
  /\ last' = Result("logout", <<>>, [kind |-> "none"])
  /\ UNCHANGED <<timers, now>>

\* stored ? JSON.parse(stored) : null
currentUser(ls) ==
  IF STORAGE_KEYS.CURRENT_USER \in DOMAIN ls
    THEN [kind |-> "user", val |-> ls[STORAGE_KEYS.CURRENT_USER]]
    ELSE [kind |-> "null"]

getCurrentUser ==
  /\ Call
  /\ UNCHANGED tabs
  /\ last' = Result("getCurrentUser", <<>>, currentUser(localStorage))
  /\ UNCHANGED <<localStorage, timers, now>>

\* variant: the id is not compared
withPassword_All(us, userId, newPassword) ==
  [i \in DOMAIN us |-> [us[i] EXCEPT !.password = newPassword]]

\* users.map(u => u.id === userId ? { ...u, password: newPassword } : u)
withPassword(us, userId, newPassword) ==
  [i \in DOMAIN us |->
     IF us[i].id = userId THEN [us[i] EXCEPT !.password = newPassword] ELSE us[i]]

updatePassword(userId, newPassword) ==
  /\ Call
  /\ UNCHANGED tabs
  /\ timers' = setTimeout("updatePassword", <<userId, newPassword>>, DelayUpdatePassword)
  /\ last' = Result("updatePassword", <<userId, newPassword>>, Pending)
  /\ UNCHANGED <<localStorage, now>>

updatePasswordTimeout(i) ==
  /\ UNCHANGED <<calls, tabs>>
  /\ timers[i].op = "updatePassword"
  /\ CanFire(i)
  /\ LET us == getItem(localStorage, STORAGE_KEYS.USERS, <<>>)
     IN  localStorage' = setItem(localStorage, STORAGE_KEYS.USERS,
                                 withPassword(us, timers[i].arg[1], timers[i].arg[2]))
  /\ last' = Result("updatePasswordTimeout", timers[i].arg, True)
  /\ timers' = RemoveAt(timers, i)
  /\ UNCHANGED now

(* ------------------------------- rooms -------------------------------- *)
getRooms ==
  /\ Call
  /\ UNCHANGED tabs
  /\ last' = Result("getRooms", <<>>,
               [kind |-> "list", val |-> getItem(localStorage, STORAGE_KEYS.ROOMS, <<>>)])
  /\ UNCHANGED <<localStorage, timers, now>>

\* { ...roomData, id: `room-${Date.now()}` }
newRoom(roomData, t) ==
  [id |-> <<"room-", t>>, name |-> roomData.name, capacity |-> roomData.capacity,
   features |-> roomData.features, imageUrl |-> roomData.imageUrl]

addRoom(roomData) ==
  /\ Call
  /\ UNCHANGED tabs
  /\ LET rs == getItem(localStorage, STORAGE_KEYS.ROOMS, <<>>)
     IN  localStorage' =
           setItem(localStorage, STORAGE_KEYS.ROOMS, Append(rs, newRoom(roomData, now)))
  /\ last' = Result("addRoom", <<roomData>>, True)
  /\ UNCHANGED <<timers, now>>

\* variant: a room with an unknown id is added
replaceRoom_Upsert(rs, updatedRoom) ==
  IF \E i \in DOMAIN rs : rs[i].id = updatedRoom.id
    THEN [i \in DOMAIN rs |-> IF rs[i].id = updatedRoom.id THEN updatedRoom ELSE rs[i]]
    ELSE Append(rs, updatedRoom)

\* variant: the id is not compared
replaceRoom_Any(rs, updatedRoom) == [i \in DOMAIN rs |-> updatedRoom]

\* rooms.map(r => r.id === updatedRoom.id ? updatedRoom : r)
replaceRoom(rs, updatedRoom) ==
  [i \in DOMAIN rs |-> IF rs[i].id = updatedRoom.id THEN updatedRoom ELSE rs[i]]

updateRoom(updatedRoom) ==
  /\ Call
  /\ UNCHANGED tabs
  /\ LET rs == getItem(localStorage, STORAGE_KEYS.ROOMS, <<>>)
     IN  localStorage' = setItem(localStorage, STORAGE_KEYS.ROOMS, replaceRoom(rs, updatedRoom))
  /\ last' = Result("updateRoom", <<updatedRoom>>, True)
  /\ UNCHANGED <<timers, now>>

\* variant: the first room goes too
withoutRoom_AndFirst(rs, roomId) == SelectSeq(Tail(rs), LAMBDA r : r.id # roomId)

\* rooms.filter(r => r.id !== roomId)
withoutRoom(rs, roomId) == SelectSeq(rs, LAMBDA r : r.id # roomId)

\* variant: the bookings are kept
withoutBookingsOf_NoCascade(bs, roomId) == bs

\* bookings.filter(b => b.roomId !== roomId)
withoutBookingsOf(bs, roomId) == SelectSeq(bs, LAMBDA b : b.roomId # roomId)

deleteRoom(roomId) ==
  /\ Call
  /\ UNCHANGED tabs
  /\ LET rs == getItem(localStorage, STORAGE_KEYS.ROOMS, <<>>)
         s1 == setItem(localStorage, STORAGE_KEYS.ROOMS, withoutRoom(rs, roomId))
         bs == getItem(s1, STORAGE_KEYS.BOOKINGS, <<>>)
     IN  localStorage' = setItem(s1, STORAGE_KEYS.BOOKINGS, withoutBookingsOf(bs, roomId))
  /\ last' = Result("deleteRoom", <<roomId>>, True)
  /\ UNCHANGED <<timers, now>>

(* ------------------------------ bookings ------------------------------ *)
\* variant: the booking is stored as approved
newBooking_Approved(booking, t1, t2) ==
  [id |-> <<"", t1>>, roomId |-> booking.roomId, purpose |-> booking.purpose,
   status |-> BookingStatus.APPROVED, createdAt |-> Num(t2)]

\* { ...booking, id: Date.now().toString(), status: PENDING, createdAt: Date.now() }
newBooking(booking, t1, t2) ==
  [id |-> <<"", t1>>, roomId |-> booking.roomId, purpose |-> booking.purpose,
   status |-> BookingStatus.PENDING, createdAt |-> Num(t2)]

\* the two readings of Date.now() are t1 and t2
createBooking(booking, t2) ==
  /\ Call
  /\ UNCHANGED tabs
  /\ t2 >= now /\ t2 <= MaxClock
  /\ LET bs == getItem(localStorage, STORAGE_KEYS.BOOKINGS, <<>>)
     IN  localStorage' = setItem(localStorage, STORAGE_KEYS.BOOKINGS,
                                 JSONBookings(Append(bs, newBooking(booking, now, t2))))
  /\ now' = t2
  /\ timers' = setTimeout("createBooking", <<>>, DelayCreateBooking)
  /\ last' = Result("createBooking", <<booking>>, Pending)

createBookingTimeout(i) ==
  /\ UNCHANGED <<calls, tabs>>
  /\ timers[i].op = "createBooking"
  /\ CanFire(i)
  /\ timers' = RemoveAt(timers, i)
  /\ last' = Result("createBookingTimeout", <<>>, True)
  /\ UNCHANGED <<localStorage, now>>

\* variant: the comparison is the other way round
byNewest_OldestFirst(a, b) == ToNumber(a.createdAt) - ToNumber(b.createdAt)

\* (a, b) => b.createdAt - a.createdAt
byNewest(a, b) == ToNumber(b.createdAt) - ToNumber(a.createdAt)

\* x put after the elements of the sorted s that do not compare greater than x
Insert(s, x) ==
  LET n == Cardinality({i \in DOMAIN s : byNewest(s[i], x) <= 0})
  IN  SubSeq(s, 1, n) \o <<x>> \o SubSeq(s, n + 1, Len(s))

\* Array.prototype.sort with byNewest (a stable sort)
RECURSIVE Sort(_)
Sort(s) == IF s = <<>> THEN <<>> ELSE Insert(Sort(SubSeq(s, 1, Len(s) - 1)), s[Len(s)])

getBookings ==
  /\ Call
  /\ UNCHANGED tabs
  /\ last' = Result("getBookings", <<>>,
               [kind |-> "list",
                val |-> Sort(getItem(localStorage, STORAGE_KEYS.BOOKINGS, <<>>))])
  /\ UNCHANGED <<localStorage, timers, now>>

\* variant: the id is not compared
withStatus_All(bs, bookingId, status) == [i \in DOMAIN bs |-> [bs[i] EXCEPT !.status = status]]

\* bookings.map(b => b.id === bookingId ? { ...b, status } : b)
withStatus(bs, bookingId, status) ==
  [i \in DOMAIN bs |-> IF bs[i].id = bookingId THEN [bs[i] EXCEPT !.status = status] ELSE bs[i]]

updateBookingStatus(bookingId, status) ==
  /\ Call
  /\ UNCHANGED tabs
  /\ LET bs == getItem(localStorage, STORAGE_KEYS.BOOKINGS, <<>>)
     IN  localStorage' = setItem(localStorage, STORAGE_KEYS.BOOKINGS,
                                 JSONBookings(withStatus(bs, bookingId, status)))
  /\ last' = Result("updateBookingStatus", <<bookingId, status>>, True)
  /\ UNCHANGED <<timers, now>>

\* bookings.map(b => b.id === updatedBooking.id ? updatedBooking : b)
replaceBooking(bs, updatedBooking) ==
  [i \in DOMAIN bs |-> IF bs[i].id = updatedBooking.id THEN updatedBooking ELSE bs[i]]

updateBooking(updatedBooking) ==
  /\ Call
  /\ UNCHANGED tabs
  /\ LET bs == getItem(localStorage, STORAGE_KEYS.BOOKINGS, <<>>)
     IN  localStorage' = setItem(localStorage, STORAGE_KEYS.BOOKINGS,
                                 JSONBookings(replaceBooking(bs, updatedBooking)))
  /\ last' = Result("updateBooking", <<updatedBooking>>, True)
  /\ UNCHANGED <<timers, now>>

(* --------------------------- page and clock --------------------------- *)
\* the module is evaluated again (the page is loaded again over the same localStorage):
\* the timers of the page before are gone, initializeStorage() runs
load ==
  /\ UNCHANGED <<calls, tabs>>
  /\ localStorage' = initializeStorage(localStorage)
  /\ timers' = <<>>
  /\ last' = NoOp
  /\ UNCHANGED now

Tick ==
  /\ UNCHANGED <<calls, tabs>>
  /\ now < MaxClock
  /\ now' = now + 1
  /\ last' = Result("tick", <<>>, [kind |-> "none"])
  /\ UNCHANGED <<localStorage, timers>>

Next ==
  \/ getAppConfig
  \/ \E config \in Configs : updateAppConfig(config)
  \/ \E i \in DOMAIN timers : updateAppConfigTimeout(i)
  \/ \E username \in Usernames, passwordInput \in Passwords : login(username, passwordInput)
  \/ \E i \in DOMAIN timers : loginTimeout(i)
  \/ \E name \in Names, username \in Usernames, password \in Passwords :
        register(name, username, password)
  \/ \E i \in DOMAIN timers : registerTimeout(i)
  \/ logout
  \/ getCurrentUser
  \/ \E userId \in UserIds, newPassword \in Passwords : updatePassword(userId, newPassword)
  \/ \E i \in DOMAIN timers : updatePasswordTimeout(i)
  \/ getRooms
  \/ \E roomData \in RoomData : addRoom(roomData)
  \/ \E updatedRoom \in Rooms : updateRoom(updatedRoom)
  \/ \E roomId \in RoomIds : deleteRoom(roomId)
  \/ \E booking \in BookingData, t2 \in Clock : createBooking(booking, t2)
  \/ \E i \in DOMAIN timers : createBookingTimeout(i)
  \/ getBookings
  \/ \E bookingId \in BookingIds, status \in BookingStatusValues :
        updateBookingStatus(bookingId, status)
  \/ \E updatedBooking \in Bookings : updateBooking(updatedBooking)
  \/ load
  \/ Tick

Spec == Init /\ [][Next]_vars

(* ============================== claims ================================ *)
session == currentUser(localStorage)

HasRoom(rs, id) == \E i \in DOMAIN rs : rs[i].id = id
HasBooking(bs, id) == \E i \in DOMAIN bs : bs[i].id = id
HasUser(us, id) == \E i \in DOMAIN us : us[i].id = id
EqualIgnoringCase(a, b) == toLowerCase(a) = toLowerCase(b)

\* C1: in the state reached when deleteRoom(r) completes, no stored room has id r and
\* no stored booking has roomId r.
C1_DeleteRoomCascade ==
  last.op = "deleteRoom" =>
    /\ last.res = True
    /\ \A i \in DOMAIN rooms : rooms[i].id # last.arg[1]
    /\ \A i \in DOMAIN bookings : bookings[i].roomId # last.arg[1]

\* deleteRoom has removed the booking that a createBooking, whose timer is still
\* pending, had stored
C1_Witness ==
  /\ last.op = "deleteRoom"
  /\ Len(timers) = 1 /\ timers[1].op = "createBooking"
  /\ bookings = <<>>

UniqueUsernames ==
  \A i, j \in DOMAIN users :
    i # j => ~EqualIgnoringCase(users[i].username, users[j].username)

\* C2: a register whose username equals, ignoring case, that of a stored user resolves
\* to the message and creates no user; no two stored users have usernames that are
\* equal ignoring case.
C2_UsernameUnique ==
  [][/\ (/\ last'.op = "registerTimeout"
         /\ \E i \in DOMAIN users : EqualIgnoringCase(users[i].username, last'.arg[2]))
          => (last'.res = [kind |-> "message", val |-> USERNAME_EXISTS] /\ users' = users)
     /\ UniqueUsernames']_vars

\* a register was refused for a username that differs in case from the stored one
C2_Witness ==
  /\ last.op = "registerTimeout"
  /\ last.res.kind = "message"
  /\ \A i \in DOMAIN users : users[i].username # last.arg[2]

\* C3: login(u, p) resolves to a user only if, when it resolves, a stored user has a
\* username equal to u ignoring case and the password p; otherwise it resolves to null.
C3_LoginPrecondition ==
  last.op = "loginTimeout" =>
    /\ last.res.kind \in {"user", "null"}
    /\ last.res.kind = "user" =>
         \E i \in DOMAIN users :
           /\ EqualIgnoringCase(users[i].username, last.arg[1])
           /\ users[i].password = last.arg[2]

\* a login that resolved to a user, with a username written in another case
C3_Witness ==
  /\ last.op = "loginTimeout"
  /\ last.res.kind = "user"
  /\ last.res.val.username # last.arg[1]

\* C4: the session slot holds no password, and no user resolved by login, register or
\* getCurrentUser holds one.
C4_NoPassword ==
  /\ session.kind = "user" => "password" \notin DOMAIN session.val
  /\ (/\ last.op \in {"loginTimeout", "registerTimeout", "getCurrentUser"}
      /\ last.res.kind = "user") => "password" \notin DOMAIN last.res.val

\* getCurrentUser returned the user of the session
C4_Witness ==
  /\ last.op = "getCurrentUser"
  /\ last.res.kind = "user"

\* the operations whose read-modify-write body is the timer's callback
BodyInCallback(op) == op \in {"login", "register", "updatePassword"}

\* the timer at position i is not the one this step fires
StillPending(i) == Len(timers') >= Len(timers) \/ timers' # RemoveAt(timers, i)

\* the keys that the body of a delayed operation reads or writes
Touches(op) ==
  IF op = "updatePassword" THEN {STORAGE_KEYS.USERS}
  ELSE {STORAGE_KEYS.USERS, STORAGE_KEYS.CURRENT_USER}

Restrict(ls, K) == [k \in (DOMAIN ls) \cap K |-> ls[k]]

\* C5, as stated: between the invocation of a delayed operation and its body no other
\* operation of the tab mutates the store (here: the keys that the body works on).
C5_Original ==
  [][\A i \in DOMAIN timers :
       (BodyInCallback(timers[i].op) /\ StillPending(i))
         => Restrict(localStorage', Touches(timers[i].op))
              = Restrict(localStorage, Touches(timers[i].op))]_vars

\* C5, amended: updateAppConfig and createBooking write the store when they are invoked
\* and their timer only completes the call, leaving the store as it is; login, register
\* and updatePassword leave the store as it is when they are invoked, and their body is
\* the one step of the timer's callback.
C5_DelayIsCompletion ==
  [][/\ last'.op = "updateAppConfig" =>
          /\ localStorage' = setItem(localStorage, STORAGE_KEYS.CONFIG, last'.arg[1])
          /\ last'.res = Pending
     /\ last'.op = "createBooking" =>
          /\ Len(bookings') = Len(bookings) + 1
          /\ last'.res = Pending
     /\ last'.op \in {"updateAppConfigTimeout", "createBookingTimeout"} =>
          /\ localStorage' = localStorage
          /\ last'.res = True
          /\ Len(timers') = Len(timers) - 1
     /\ last'.op \in {"login", "register", "updatePassword"} =>
          /\ localStorage' = localStorage
          /\ last'.res = Pending
          /\ timers' = Append(timers, timers'[Len(timers')])
          /\ timers'[Len(timers')].op = last'.op
     /\ last'.op \in {"loginTimeout", "registerTimeout", "updatePasswordTimeout"} =>
          /\ last'.res # Pending
          /\ Len(timers') = Len(timers) - 1]_vars

\* an updateAppConfig has completed while the config it wrote when invoked is stored
C5_Witness ==
  /\ last.op = "updateAppConfigTimeout"
  /\ localStorage[STORAGE_KEYS.CONFIG] # SEED_CONFIG

SameBag(s, t) ==
  /\ Len(s) = Len(t)
  /\ \A i \in DOMAIN s :
       Cardinality({j \in DOMAIN s : s[j] = s[i]}) = Cardinality({j \in DOMAIN t : t[j] = s[i]})

\* C6: getBookings resolves to a permutation of the stored bookings in which, for
\* A.createdAt < B.createdAt, B precedes A.
C6_NewestFirst ==
  last.op = "getBookings" =>
    LET r == last.res.val
    IN  /\ SameBag(r, bookings)
        /\ \A i, j \in DOMAIN r :
             ToNumber(r[i].createdAt) < ToNumber(r[j].createdAt) => j < i

\* getBookings resolved to the stored bookings in another order
C6_Witness ==
  /\ last.op = "getBookings"
  /\ Len(bookings) >= 2
  /\ last.res.val # bookings

\* C7: updateRoom, updateBooking and updateBookingStatus with an id of no stored record,
\* and updatePassword with an id of no stored user, leave their collection as it is and
\* resolve to true.
C7_NoOpOnMissingId ==
  [][/\ (last'.op = "updateRoom" /\ ~HasRoom(rooms, last'.arg[1].id))
          => (rooms' = rooms /\ last'.res = True)
     /\ (last'.op = "updateBooking" /\ ~HasBooking(bookings, last'.arg[1].id))
          => (bookings' = bookings /\ last'.res = True)
     /\ (last'.op = "updateBookingStatus" /\ ~HasBooking(bookings, last'.arg[1]))
          => (bookings' = bookings /\ last'.res = True)
     /\ (last'.op = "updatePasswordTimeout" /\ ~HasUser(users, last'.arg[1]))
          => (users' = users /\ last'.res = True)]_vars

\* updateBooking was given an id that none of the stored bookings has
C7_Witness ==
  /\ last.op = "updateBooking"
  /\ bookings # <<>>
  /\ ~HasBooking(bookings, last.arg[1].id)

CollectionKeys ==
  {STORAGE_KEYS.ROOMS, STORAGE_KEYS.BOOKINGS, STORAGE_KEYS.USERS, STORAGE_KEYS.CONFIG}

Without(ls, K) == [k \in (DOMAIN ls) \ K |-> ls[k]]

\* C8: initializeStorage run twice leaves what one run leaves, and it leaves every key
\* that is present as it is, whichever keys are absent.
C8_SeedingIdempotent ==
  \A K \in SUBSET CollectionKeys :
    LET s == Without(localStorage, K)
        once == initializeStorage(s)
    IN  /\ initializeStorage(once) = once
        /\ CollectionKeys \subseteq DOMAIN once
        /\ \A k \in DOMAIN s : once[k] = s[k]

\* the page was loaded again over rooms that are not the seed rooms
C8_Witness ==
  /\ last.op = "load"
  /\ rooms # SEED_ROOMS
  /\ calls > 0

\* C9: a register whose username is not stored appends one user with that name,
\* username, password and role USER, leaves the other users alone, puts the new user
\* without its password in the session slot and resolves to what getCurrentUser returns.
C9_RegisterCreates ==
  [][(/\ last'.op = "registerTimeout"
      /\ \A i \in DOMAIN users : ~EqualIgnoringCase(users[i].username, last'.arg[2]))
       => LET nu == users'[Len(users')]
          IN  /\ Len(users') = Len(users) + 1
              /\ SubSeq(users', 1, Len(users)) = users
              /\ nu.name = last'.arg[1]
              /\ nu.username = last'.arg[2]
              /\ nu.password = last'.arg[3]
              /\ nu.role = UserRole.USER
              /\ session' = [kind |-> "user",
                             val |-> [id |-> nu.id, username |-> nu.username,
                                      name |-> nu.name, role |-> nu.role]]
              /\ last'.res = session']_vars

\* a register has created a user
C9_Witness ==
  /\ last.op = "registerTimeout"
  /\ last.res.kind = "user"
  /\ Len(users) = Len(SEED_USERS) + 1

\* C10: updateBookingStatus(id, s) on a stored booking id sets the status of the
\* bookings with that id to s and changes nothing else: not their other fields, not the
\* other bookings, not the order, not the rooms, users, config or session.
C10_StatusOnly ==
  [][(last'.op = "updateBookingStatus" /\ HasBooking(bookings, last'.arg[1]))
       => /\ DOMAIN bookings' = DOMAIN bookings
          /\ \A i \in DOMAIN bookings :
               bookings'[i] = IF bookings[i].id = last'.arg[1]
                                THEN [bookings[i] EXCEPT !.status = last'.arg[2]]
                                ELSE bookings[i]
          /\ DOMAIN localStorage' = DOMAIN localStorage
          /\ \A k \in (DOMAIN localStorage) \ {STORAGE_KEYS.BOOKINGS} :
               localStorage'[k] = localStorage[k]
          /\ last'.res = True]_vars

\* a status was set on one of two bookings with different ids, in a session
C10_Witness ==
  /\ last.op = "updateBookingStatus"
  /\ last.arg[2] # BookingStatus.PENDING
  /\ \E i, j \in DOMAIN bookings :
       /\ bookings[i].id = last.arg[1] /\ bookings[i].status = last.arg[2]
       /\ bookings[j].id # last.arg[1] /\ bookings[j].status = BookingStatus.PENDING

\* the bookings of the next state that were stored before are stored as they were,
\* but for their status where the length is kept
StatusChanged ==
  /\ Len(bookings') = Len(bookings)
  /\ \E i \in DOMAIN bookings : bookings'[i].status # bookings[i].status

\* every booking that a step adds to the store is PENDING
EntersPending ==
  Len(bookings') > Len(bookings) =>
    /\ last'.op = "createBooking"
    /\ Len(bookings') = Len(bookings) + 1
    /\ SubSeq(bookings', 1, Len(bookings)) = bookings
    /\ bookings'[Len(bookings')].status = BookingStatus.PENDING

\* a step that removes bookings leaves the status of the ones it keeps
KeptAsTheyWere ==
  Len(bookings') < Len(bookings) =>
    \A i \in DOMAIN bookings' : \E j \in DOMAIN bookings : bookings'[i] = bookings[j]

\* C11, as stated: a booking enters the store PENDING, and the status of a stored
\* booking changes only in an updateBookingStatus call.
C11_Original ==
  [][/\ EntersPending
     /\ KeptAsTheyWere
     /\ StatusChanged => last'.op = "updateBookingStatus"]_vars

\* C11, amended: a booking enters the store PENDING, in createBooking; the status of a
\* stored booking changes only in an updateBookingStatus call or in an updateBooking
\* call, which puts the status of the record it is given; updateBookingStatus(id, s)
\* leaves every booking with that id in status s, whatever its status was.
C11_StatusMachine ==
  [][/\ EntersPending
     /\ KeptAsTheyWere
     /\ StatusChanged => last'.op \in {"updateBookingStatus", "updateBooking"}
     /\ last'.op = "updateBookingStatus" =>
          \A i \in DOMAIN bookings :
            bookings[i].id = last'.arg[1] => bookings'[i].status = last'.arg[2]
     /\ last'.op = "updateBooking" =>
          \A i \in DOMAIN bookings :
            bookings[i].id = last'.arg[1].id => bookings'[i].status = last'.arg[1].status]_vars

\* updateBookingStatus has set REJECTED on a booking that updateBooking had replaced by
\* an APPROVED one
C11_Witness ==
  /\ last.op = "updateBookingStatus"
  /\ last.arg[2] = BookingStatus.REJECTED
  /\ \E i \in DOMAIN bookings :
       /\ bookings[i].id = last.arg[1]
       /\ bookings[i].status = BookingStatus.REJECTED
       /\ bookings[i].roomId = <<"room-", StartClock>>

(* ------------------------------ fairness ------------------------------ *)
\* the browser runs the callback of every timer that is due: a callback that can run and
\* stays able to run does run
\* whether a timer fires does not depend on what the operations are given: each
\* operation is invoked here with one input for each branch of its body
FairNext ==
  \/ getAppConfig
  \/ \E config \in Configs : updateAppConfig(config)
  \/ \E i \in DOMAIN timers : updateAppConfigTimeout(i)
  \/ \E username \in Usernames : login(username, SEED_USERS[1].password)
  \/ \E i \in DOMAIN timers : loginTimeout(i)
  \/ \E name \in Names, username \in Usernames :
        register(name, username, SEED_USERS[1].password)
  \/ \E i \in DOMAIN timers : registerTimeout(i)
  \/ logout
  \/ getCurrentUser
  \/ updatePassword(SEED_USERS[1].id, SEED_USERS[1].password)
  \/ \E i \in DOMAIN timers : updatePasswordTimeout(i)
  \/ getRooms
  \/ \E roomData \in RoomData : addRoom(roomData)
  \/ \E updatedRoom \in Rooms : updatedRoom.id = SEED_ROOMS[1].id /\ updateRoom(updatedRoom)
  \/ deleteRoom(SEED_ROOMS[1].id)
  \/ \E booking \in BookingData :
        booking.roomId = SEED_ROOMS[1].id /\ createBooking(booking, now)
  \/ \E i \in DOMAIN timers : createBookingTimeout(i)
  \/ getBookings
  \/ updateBookingStatus(EarlierBooking.id, BookingStatus.APPROVED)
  \/ \E updatedBooking \in Bookings :
        /\ updatedBooking.id = EarlierBooking.id
        /\ updatedBooking.createdAt = NaN
        /\ updateBooking(updatedBooking)
  \/ load
  \/ Tick

FairSpec ==
  /\ Init /\ [][FairNext]_vars
  /\ WF_vars(\E i \in DOMAIN timers : updateAppConfigTimeout(i))
  /\ WF_vars(\E i \in DOMAIN timers : loginTimeout(i))
  /\ WF_vars(\E i \in DOMAIN timers : registerTimeout(i))
  /\ WF_vars(\E i \in DOMAIN timers : updatePasswordTimeout(i))
  /\ WF_vars(\E i \in DOMAIN timers : createBookingTimeout(i))

\* the operations that resolve in the step that invokes them
Immediate ==
  {"getAppConfig", "getRooms", "addRoom", "updateRoom", "deleteRoom", "getBookings",
   "updateBookingStatus", "updateBooking"}
\* the operations that are no promises
Synchronous == {"logout", "getCurrentUser"}
\* the operations that resolve in the callback of a timer
Deferred == {"updateAppConfig", "login", "register", "updatePassword", "createBooking"}
Callbacks ==
  {"updateAppConfigTimeout", "loginTimeout", "registerTimeout", "updatePasswordTimeout",
   "createBookingTimeout"}

\* the promise of the n-th operation is pending
IsPending(n) == \E i \in DOMAIN timers : timers[i].promise = n

\* what a promise of StorageService resolves to
Resolutions == {"true", "user", "null", "message", "config", "list"}

\* a promise is made pending by the one call that makes it, and ends being pending in the
\* one callback that resolves it (or with its page)
SettlesOnce ==
  /\ last'.op \in Immediate => (last'.res.kind \in Resolutions /\ timers' = timers)
  /\ last'.op \in Synchronous => timers' = timers
  /\ last'.op \in Deferred =>
       /\ last'.res = Pending
       /\ timers' = Append(timers, timers'[Len(timers')])
       /\ timers'[Len(timers')].promise = calls'
       /\ calls' = calls + 1
       /\ ~IsPending(calls')
  /\ last'.op \in Callbacks =>
       /\ last'.res.kind \in Resolutions
       /\ \E i \in DOMAIN timers :
            /\ timers' = RemoveAt(timers, i)
            /\ last'.op = timers[i].op \o "Timeout"
  /\ \A n \in 1..MaxCalls :
       /\ (IsPending(n)' /\ ~IsPending(n)) => (last'.op \in Deferred /\ n = calls')
       /\ (IsPending(n) /\ ~IsPending(n)') => last'.op \in Callbacks \cup {"load"}
       /\ Cardinality({i \in DOMAIN timers : timers[i].promise = n}) <= 1

\* C12: every operation is resolved, in the step that invokes it or, for a deferred one,
\* in the one callback of its timer, which does run: no promise stays pending for ever,
\* none is resolved twice and none is rejected.
C12_Settles ==
  /\ [][SettlesOnce]_vars
  /\ \A n \in 1..MaxCalls : IsPending(n) ~> ~IsPending(n)

\* the promise of the first operation has been resolved while the promise of the second
\* is pending
C12_Witness ==
  /\ last.op \in Callbacks
  /\ calls = 2
  /\ ~IsPending(1)
  /\ IsPending(2)

RoomIdsStored(rs) == {rs[i].id : i \in DOMAIN rs}

\* every stored booking is of a stored room
ReferentialIntegrity ==
  \A i \in DOMAIN bookings : bookings[i].roomId \in RoomIdsStored(rooms)

\* the step is no createBooking and no updateBooking given a roomId of no stored room
WellFormedCall ==
  last'.op \in {"createBooking", "updateBooking"} =>
    last'.arg[1].roomId \in RoomIdsStored(rooms)

\* C13: the bookings that the page finds are of stored rooms, and a step from a state
\* where every booking is of a stored room, unless it is a createBooking or
\* updateBooking given the roomId of no stored room, leads to such a state; updateRoom
\* leaves the set of room ids as it is.
C13_ReferentialIntegrity ==
  /\ ReferentialIntegrity
  /\ [][/\ (ReferentialIntegrity /\ WellFormedCall) => ReferentialIntegrity'
        /\ last'.op = "updateRoom" => RoomIdsStored(rooms') = RoomIdsStored(rooms)]_vars

\* updateBooking has moved a booking to a room that addRoom had stored
C13_Witness ==
  /\ last.op = "updateBooking"
  /\ ReferentialIntegrity
  /\ \E i \in DOMAIN bookings :
       /\ bookings[i] = last.arg[1]
       /\ bookings[i].roomId # SEED_ROOMS[1].id

\* t is s without the elements at the positions of Gone, the others in their order
IsWithout(t, s, Gone) ==
  LET Kept == (DOMAIN s) \ Gone
  IN  /\ Len(t) = Cardinality(Kept)
      /\ \A i \in Kept : t[Cardinality({j \in Kept : j <= i})] = s[i]

\* every record of s is in t at its position, with its id
StaysIn(s, t) ==
  /\ Len(t) >= Len(s)
  /\ \A i \in DOMAIN s : t[i].id = s[i].id

\* C14: deleteRoom(r) removes the rooms with id r and the bookings with roomId r and
\* keeps the other rooms and bookings as they are, in their order; every other step
\* keeps every stored room and booking, and every step keeps every stored user.
C14_OnlyCascade ==
  [][/\ last'.op = "deleteRoom" =>
          /\ IsWithout(rooms', rooms, {i \in DOMAIN rooms : rooms[i].id = last'.arg[1]})
          /\ IsWithout(bookings', bookings,
                       {i \in DOMAIN bookings : bookings[i].roomId = last'.arg[1]})
     /\ last'.op # "deleteRoom" => (StaysIn(bookings, bookings') /\ StaysIn(rooms, rooms'))
     /\ StaysIn(users, users')
     /\ \A i \in DOMAIN users :
          /\ users'[i].username = users[i].username
          /\ users'[i].name = users[i].name
          /\ users'[i].role = users[i].role]_vars

\* deleteRoom has removed the seed room and kept the booking of another room
C14_Witness ==
  /\ last.op = "deleteRoom"
  /\ last.arg[1] = SEED_ROOMS[1].id
  /\ Len(bookings) = 1
  /\ bookings[1].roomId # last.arg[1]

\* C15: a login that resolves to null and a register that resolves to the message leave
\* localStorage as it is, in the step that invokes them and in the step of their body:
\* the users and the session slot are after the step what they were before it.
C15_FailureChangesNothing ==
  [][/\ last'.op \in {"login", "register"} => localStorage' = localStorage
     /\ (last'.op = "loginTimeout" /\ last'.res.kind = "null") =>
          (localStorage' = localStorage /\ users' = users /\ session' = session)
     /\ (last'.op = "registerTimeout" /\ last'.res.kind = "message") =>
          (localStorage' = localStorage /\ users' = users /\ session' = session)]_vars

\* a login has resolved to null while a user is in the session
C15_Witness ==
  /\ last.op = "loginTimeout"
  /\ last.res.kind = "null"
  /\ session.kind = "user"

\* what the body of login(username, passwordInput) resolves to over the users us
loginResult(us, username, passwordInput) ==
  LET k == findUser(us, username)
  IN  IF loginAccepts(us, k, passwordInput)
        THEN [kind |-> "user", val |-> loginSafeUser(us[k])]
        ELSE [kind |-> "null"]

\* C16: when updatePassword(userId, p) resolves on a stored user id, the users with that
\* id have the password p and their other fields as before, the other users, the
\* session slot and the other keys are as before, a login with the username of such a
\* user and p resolves to that user without its password, and a login with the password
\* it had, when that is not p, resolves to null; a login resolves to what loginResult
\* gives over the stored users.
C16_PasswordOnly ==
  [][/\ (last'.op = "updatePasswordTimeout" /\ HasUser(users, last'.arg[1])) =>
          /\ DOMAIN users' = DOMAIN users
          /\ \A i \in DOMAIN users :
               users'[i] = IF users[i].id = last'.arg[1]
                             THEN [users[i] EXCEPT !.password = last'.arg[2]]
                             ELSE users[i]
          /\ DOMAIN localStorage' = DOMAIN localStorage
          /\ \A k \in (DOMAIN localStorage) \ {STORAGE_KEYS.USERS} :
               localStorage'[k] = localStorage[k]
          /\ last'.res = True
          /\ \A i \in DOMAIN users :
               users[i].id = last'.arg[1] =>
                 /\ loginResult(users', users[i].username, last'.arg[2])
                      = [kind |-> "user",
                         val |-> [id |-> users[i].id, username |-> users[i].username,
                                  name |-> users[i].name, role |-> users[i].role]]
                 /\ users[i].password # last'.arg[2] =>
                      loginResult(users', users[i].username, users[i].password)
                        = [kind |-> "null"]
     /\ last'.op = "loginTimeout" =>
          last'.res = loginResult(users, last'.arg[1], last'.arg[2])]_vars

\* updatePassword has resolved on the seed administrator with another password, while a
\* user is in the session
C16_Witness ==
  /\ last.op = "updatePasswordTimeout"
  /\ last.arg[1] = SEED_USERS[1].id
  /\ last.arg[2] # SEED_USERS[1].password
  /\ users[1].password = last.arg[2]
  /\ session.kind = "user"

(* ------------------------------ two tabs ------------------------------ *)
\* const rooms = JSON.parse(localStorage.getItem(ROOMS) || '[]'), in tab t
addRoomRead(t, roomData) ==
  /\ Call
  /\ tabs[t].pc = "idle"
  /\ tabs' = [tabs EXCEPT ![t] =
                [pc |-> "addRoom", op |-> "addRoom",
                 read |-> getItem(localStorage, STORAGE_KEYS.ROOMS, <<>>),
                 arg |-> <<roomData>>, res |-> Pending]]
  /\ last' = Result("addRoomRead", <<t, roomData>>, Pending)
  /\ UNCHANGED <<localStorage, timers, now>>

\* variant: the rooms are read again when they are written
addRoomWrite_ReadsAgain(t) ==
  /\ UNCHANGED calls
  /\ tabs[t].pc = "addRoom"
  /\ localStorage' =
       setItem(localStorage, STORAGE_KEYS.ROOMS,
               Append(getItem(localStorage, STORAGE_KEYS.ROOMS, <<>>),
                      newRoom(tabs[t].arg[1], now)))
  /\ tabs' = [tabs EXCEPT ![t].pc = "idle", ![t].res = True]
  /\ last' = Result("addRoomWrite", <<t>>, True)
  /\ UNCHANGED <<timers, now>>

\* rooms.push(newRoom); localStorage.setItem(ROOMS, JSON.stringify(rooms)); resolve(true)
addRoomWrite(t) ==
  /\ UNCHANGED calls
  /\ tabs[t].pc = "addRoom"
  /\ localStorage' =
       setItem(localStorage, STORAGE_KEYS.ROOMS,
               Append(tabs[t].read, newRoom(tabs[t].arg[1], now)))
  /\ tabs' = [tabs EXCEPT ![t].pc = "idle", ![t].res = True]
  /\ last' = Result("addRoomWrite", <<t>>, True)
  /\ UNCHANGED <<timers, now>>

\* const bookings = JSON.parse(localStorage.getItem(BOOKINGS) || '[]'), in tab t
createBookingRead(t, booking) ==
  /\ Call
  /\ tabs[t].pc = "idle"
  /\ tabs' = [tabs EXCEPT ![t] =
                [pc |-> "createBooking", op |-> "createBooking",
                 read |-> getItem(localStorage, STORAGE_KEYS.BOOKINGS, <<>>),
                 arg |-> <<booking, calls'>>, res |-> Pending]]
  /\ last' = Result("createBookingRead", <<t, booking>>, Pending)
  /\ UNCHANGED <<localStorage, timers, now>>

\* bookings.push(newBooking); localStorage.setItem(BOOKINGS, ...); setTimeout(...)
createBookingWrite(t) ==
  /\ UNCHANGED calls
  /\ tabs[t].pc = "createBooking"
  /\ localStorage' =
       setItem(localStorage, STORAGE_KEYS.BOOKINGS,
               JSONBookings(Append(tabs[t].read, newBooking(tabs[t].arg[1], now, now))))
  /\ timers' = Append(timers, [promise |-> tabs[t].arg[2], op |-> "createBooking",
                               arg |-> <<>>, delay |-> DelayCreateBooking])
  /\ tabs' = [tabs EXCEPT ![t].pc = "idle"]
  /\ last' = Result("createBookingWrite", <<t>>, Pending)
  /\ UNCHANGED now

TabsNext ==
  \/ \E t \in Tabs, roomData \in RoomData : addRoomRead(t, roomData)
  \/ \E t \in Tabs : addRoomWrite(t)
  \/ \E t \in Tabs, booking \in BookingData : createBookingRead(t, booking)
  \/ \E t \in Tabs : createBookingWrite(t)
  \/ \E i \in DOMAIN timers : createBookingTimeout(i)
  \/ Tick

\* two tabs over one localStorage: a tab's getItem and its setItem are two steps, and the
\* steps of the other tab come between them
TabsSpec == Init /\ [][TabsNext]_vars

\* C17: the addRoom of a tab writes the rooms it has read with its room added, whatever
\* the rooms are when it writes (and so for createBooking): what another tab has written
\* since is gone.  The state of the lost update is C17_Witness.
C17_LastWriteWins ==
  [][/\ \A t \in Tabs :
          (last'.op = "addRoomWrite" /\ last'.arg[1] = t) =>
            /\ Len(rooms') = Len(tabs[t].read) + 1
            /\ SubSeq(rooms', 1, Len(tabs[t].read)) = tabs[t].read
            /\ rooms'[Len(rooms')].name = tabs[t].arg[1].name
            /\ tabs'[t].res = True
     /\ \A t \in Tabs :
          (last'.op = "createBookingWrite" /\ last'.arg[1] = t) =>
            /\ Len(bookings') = Len(tabs[t].read) + 1
            /\ SubSeq(bookings', 1, Len(tabs[t].read)) = tabs[t].read]_vars

\* both tabs have added a room and resolved to true, and the rooms are one more than
\* each tab had read
C17_Witness ==
  /\ \A t \in Tabs : tabs[t].op = "addRoom" /\ tabs[t].pc = "idle" /\ tabs[t].res = True
  /\ \A t, u \in Tabs : tabs[t].read = tabs[u].read
  /\ \E t \in Tabs : Len(rooms) = Len(tabs[t].read) + 1

UniqueIds(s) == \A i, j \in DOMAIN s : s[i].id = s[j].id => i = j

\* C18: no two stored rooms have the same id, no two stored bookings have the same id
\* and no two stored users have the same id.
C18_UniqueIds ==
  /\ UniqueIds(rooms)
  /\ UniqueIds(bookings)
  /\ UniqueIds(users)

\* C19: the timers that are pending in the state that logout leaves are those of calls
\* made before the logout; when the callback of a login or register among them runs
\* next, the session slot is still empty.
C19_LogoutFinal ==
  [][(last.op = "logout" /\ last'.op \in {"loginTimeout", "registerTimeout"})
       => session' = [kind |-> "null"]]_vars

\* C20: when the session slot is present, it holds a stored user without its password:
\* some stored user has the id, username, name and role of the session.
C20_SessionMirrorsUser ==
  session.kind = "user" =>
    /\ DOMAIN session.val = {"id", "username", "name", "role"}
    /\ \E i \in DOMAIN users :
         /\ users[i].id = session.val.id
         /\ users[i].username = session.val.username
         /\ users[i].name = session.val.name
         /\ users[i].role = session.val.role

\* the password of the user in the session has been changed
C20_Witness ==
  /\ last.op = "updatePasswordTimeout"
  /\ session.kind = "user"
  /\ session.val.id = last.arg[1]
  /\ \E i \in DOMAIN users :
       users[i].id = session.val.id /\ users[i].password # SEED_USERS[1].password

====
